---- MODULE Spec2Model ----
(***************************************************************************)
(* Model of src/library/tiled-hull.js: phaserTiledHull turns a tilemap     *)
(* layer into one polygon per 4-connected cluster of matching tiles.       *)
(*   calculateClusters  : column-by-column scan + recursive flood fill     *)
(*   calculateHullPoints: corner points of every cluster -> hulljs         *)
(*   buildPolygons      : collinear segments of a hull collapsed to edges  *)
(*   phaserTiledHull    : every edge wrapped into a PolygonEdge            *)
(* JavaScript null is the empty tuple; a non-null value v is <<v>>.        *)
(***************************************************************************)
EXTENDS Integers, Sequences, FiniteSets, TLC

\* ---------------------------------------------------------------- bounds
\* tilemap.width / tilemap.height of the layers explored
Width == 2
Height == 2
\* largest number of non-empty cells in an explored layer
MaxTiles == 3
\* pixel size of one tile (tile.right - tile.left, tile.bottom - tile.top)
TileWidth == 2
TileHeight == 1

Null == <<>>
Some(v) == <<v>>

Coords == (0 .. Width - 1) \X (0 .. Height - 1)

\* The tiles a cell may hold: index, Tiled properties (truthiness of each
\* named property), collides flag.
TileKinds ==
    { [index |-> 1, properties |-> [solid |-> TRUE],  collides |-> FALSE],
      [index |-> 2, properties |-> [solid |-> FALSE], collides |-> TRUE] }

Cells == {Null} \cup {Some(k) : k \in TileKinds}

Grids ==
    { g \in [Coords -> Cells] :
        Cardinality({c \in Coords : g[c] # Null}) <= MaxTiles }

\* The options object of phaserTiledHull with its defaults (null, null, false).
Options ==
    [ tileIndices  : {Null, Some({1})},
      tileProperty : {Null, Some("solid")},
      checkCollide : BOOLEAN ]

VARIABLES
    grid,        \* tilemapLayer: cell coordinate -> Null or Some(tile kind)
    opts,        \* {tileIndices, tileProperty, checkCollide}
    pc,          \* position in phaserTiledHull
    x, y,        \* loop variables of calculateClusters
    scanned,     \* coordinates the outer loops of calculateClusters examined
    cluster,     \* the cluster being grown by recursivelySearchNeighbors
    stack,       \* active calls of recursivelySearchNeighbors: [x, y, k]
    clusters,    \* calculateClusters' result
    hullConv,    \* how the linked hull.js orders its result (Null until called)
    pointHulls,  \* calculateHullPoints' result
    passEdges,   \* buildPolygons: `edges` before the first/last merge
    polyHulls,   \* buildPolygons' result
    hulls        \* phaserTiledHull's result

vars == << grid, opts, pc, x, y, scanned, cluster, stack, clusters,
           hullConv, pointHulls, passEdges, polyHulls, hulls >>

\* ------------------------------------------------------ calculateClusters

\* tilemap.getTile(tx, ty, layer): null outside the layer and on empty cells;
\* every cell has its own Tile object, identified here by its coordinates.
getTile(tx, ty) ==
    IF tx >= 0 /\ tx < Width /\ ty >= 0 /\ ty < Height /\ grid[<<tx, ty>>] # Null
    THEN Some([ x |-> tx, y |-> ty,
                index |-> grid[<<tx, ty>>][1].index,
                properties |-> grid[<<tx, ty>>][1].properties,
                collides |-> grid[<<tx, ty>>][1].collides ])
    ELSE Null

\* faulty variant of checkTile: colliding tiles pass whatever checkCollide is
checkTileIgnoringFlag(tile) ==
    IF tile = Null THEN FALSE
    ELSE IF opts.tileIndices # Null /\ tile[1].index \in opts.tileIndices[1] THEN TRUE
    ELSE IF opts.tileProperty # Null /\ tile[1].properties[opts.tileProperty[1]] THEN TRUE
    ELSE IF tile[1].collides THEN TRUE
    ELSE FALSE

\* checkTile(tile): the three modes, tried in order, after the null test
checkTile(tile) ==
    IF tile = Null THEN FALSE
    ELSE IF opts.tileIndices # Null /\ tile[1].index \in opts.tileIndices[1] THEN TRUE
    ELSE IF opts.tileProperty # Null /\ tile[1].properties[opts.tileProperty[1]] THEN TRUE
    ELSE IF opts.checkCollide /\ tile[1].collides THEN TRUE
    ELSE FALSE

\* cluster.indexOf(tile): 0-based position of the tile, -1 when absent
indexOf(cl, tile) ==
    IF \E i \in 1 .. Len(cl) : cl[i] = tile
    THEN (CHOOSE i \in 1 .. Len(cl) :
            cl[i] = tile /\ \A j \in 1 .. i - 1 : cl[j] # tile) - 1
    ELSE -1

\* faulty variant of findTileInClusters: the tile is never found
findTileNever(searchTile) == FALSE

\* findTileInClusters(tile) as the truth value the caller tests
findTileInClusters(searchTile) ==
    \E i \in 1 .. Len(clusters) :
        \E j \in 1 .. Len(clusters[i]) : clusters[i][j] = searchTile[1]

\* faulty variant of Neighbor: the last two calls go to diagonal cells
NeighborDiagonal(cx, cy, k) ==
    CASE k = 1 -> <<cx, cy - 1>>
      [] k = 2 -> <<cx, cy + 1>>
      [] k = 3 -> <<cx + 1, cy + 1>>
      [] k = 4 -> <<cx - 1, cy - 1>>

\* the k-th recursive call of recursivelySearchNeighbors(cx, cy, ...)
Neighbor(cx, cy, k) ==
    CASE k = 1 -> <<cx, cy - 1>>
      [] k = 2 -> <<cx, cy + 1>>
      [] k = 3 -> <<cx + 1, cy>>
      [] k = 4 -> <<cx - 1, cy>>

\* Entry of recursivelySearchNeighbors(cx, cy, cl) with call stack st: the
\* tile is pushed and a frame opened when it passes the checks and is not in
\* the cluster yet; otherwise the call returns at once.
recursivelySearchNeighbors(cx, cy, cl, st) ==
    LET tile == getTile(cx, cy) IN
    IF checkTile(tile) /\ indexOf(cl, tile[1]) = -1
    THEN [ cluster |-> Append(cl, tile[1]),
           stack   |-> Append(st, [x |-> cx, y |-> cy, k |-> 1]) ]
    ELSE [ cluster |-> cl, stack |-> st ]

\* faulty variant of Advance: the inner loop restarts at y = 1
AdvanceSkipping(cx, cy) ==
    IF cy + 1 < Height THEN <<cx, cy + 1>> ELSE <<cx + 1, 1>>

\* y++ of the inner loop, then x++ of the outer loop with y restarting at 0
Advance(cx, cy) ==
    IF cy + 1 < Height THEN <<cx, cy + 1>> ELSE <<cx + 1, 0>>

Init ==
    /\ grid \in Grids
    /\ opts \in Options
    /\ pc = "scan"
    /\ x = 0
    /\ y = 0
    /\ scanned = <<>>
    /\ cluster = <<>>
    /\ stack = <<>>
    /\ clusters = <<>>
    /\ hullConv = Null
    /\ pointHulls = <<>>
    /\ passEdges = <<>>
    /\ polyHulls = <<>>
    /\ hulls = <<>>

\* One iteration of the loops at lines 52-61, up to the call at line 57.
ScanTile ==
    /\ pc = "scan"
    /\ x < Width
    /\ y < Height
    /\ scanned' = Append(scanned, <<x, y>>)
    /\ LET tile == getTile(x, y) IN
       IF checkTile(tile) /\ ~findTileInClusters(tile)
       THEN LET r == recursivelySearchNeighbors(x, y, <<>>, <<>>) IN
            /\ cluster' = r.cluster
            /\ stack' = r.stack
            /\ pc' = "search"
            /\ UNCHANGED << x, y >>
       ELSE /\ x' = Advance(x, y)[1]
            /\ y' = Advance(x, y)[2]
            /\ UNCHANGED << cluster, stack, pc >>
    /\ UNCHANGED << grid, opts, hullConv, clusters, pointHulls, passEdges, polyHulls, hulls >>

\* The next of the four recursive calls made by the innermost active call.
SearchNeighbor ==
    /\ pc = "search"
    /\ stack # <<>>
    /\ LET top == stack[Len(stack)]
           nb  == Neighbor(top.x, top.y, top.k)
           st  == [stack EXCEPT ![Len(stack)].k = top.k + 1]
           r   == recursivelySearchNeighbors(nb[1], nb[2], cluster, st)
       IN  /\ top.k <= 4
           /\ cluster' = r.cluster
           /\ stack' = r.stack
    /\ UNCHANGED << grid, opts, hullConv, pc, x, y, scanned, clusters,
                    pointHulls, passEdges, polyHulls, hulls >>

\* The innermost active call returns; when it was the call of line 57 the
\* cluster is pushed (line 58) and the scan goes on.
SearchReturn ==
    /\ pc = "search"
    /\ stack # <<>>
    /\ stack[Len(stack)].k = 5
    /\ stack' = SubSeq(stack, 1, Len(stack) - 1)
    /\ IF Len(stack) = 1
       THEN /\ clusters' = Append(clusters, cluster)
            /\ pc' = "scan"
            /\ x' = Advance(x, y)[1]
            /\ y' = Advance(x, y)[2]
       ELSE UNCHANGED << clusters, pc, x, y >>
    /\ UNCHANGED << grid, opts, hullConv, scanned, cluster, pointHulls, passEdges,
                    polyHulls, hulls >>

\* The loops are exhausted: return clusters (line 100).
ScanEnd ==
    /\ pc = "scan"
    /\ x >= Width
    /\ pc' = "hullPoints"
    /\ UNCHANGED << grid, opts, hullConv, x, y, scanned, cluster, stack, clusters,
                    pointHulls, passEdges, polyHulls, hulls >>

NextClusters == ScanTile \/ SearchNeighbor \/ SearchReturn \/ ScanEnd

SpecClusters == Init /\ [][NextClusters]_vars

FairClusters == SpecClusters /\ WF_vars(NextClusters)

\* ---------------------------------------------------- calculateHullPoints

\* tile.left, tile.right, tile.top, tile.bottom in pixels
TileLeft(tile) == tile.x * TileWidth
TileRight(tile) == tile.x * TileWidth + TileWidth
TileTop(tile) == tile.y * TileHeight
TileBottom(tile) == tile.y * TileHeight + TileHeight

RECURSIVE cornerPoints(_)
\* the points array built for one cluster (lines 109-117)
cornerPoints(cl) ==
    IF cl = <<>> THEN <<>>
    ELSE << <<TileLeft(cl[1]), TileTop(cl[1])>>,
            <<TileRight(cl[1]), TileTop(cl[1])>>,
            <<TileLeft(cl[1]), TileBottom(cl[1])>>,
            <<TileRight(cl[1]), TileBottom(cl[1])>> >> \o cornerPoints(Tail(cl))

Range(s) == {s[i] : i \in 1 .. Len(s)}

\* Directed sides (clockwise on screen, y growing downwards) of the tile-sized
\* rectangles all of whose corners are among the points, without the sides
\* two rectangles share: the outline of the region the points span.
OutlineSides(ps) ==
    LET corners == {p \in ps : /\ <<p[1] + TileWidth, p[2]>> \in ps
                               /\ <<p[1], p[2] + TileHeight>> \in ps
                               /\ <<p[1] + TileWidth, p[2] + TileHeight>> \in ps}
        sidesOf(p) ==
            LET l == p[1]
                r == p[1] + TileWidth
                t == p[2]
                b == p[2] + TileHeight
            IN  { << <<l, t>>, <<r, t>> >>, << <<r, t>>, <<r, b>> >>,
                  << <<r, b>>, <<l, b>> >>, << <<l, b>>, <<l, t>> >> }
        all == UNION {sidesOf(p) : p \in corners}
    IN  {s \in all : <<s[2], s[1]>> \notin all}

RECURSIVE TraceOutline(_, _, _, _)
TraceOutline(sides, start, cur, acc) ==
    LET nxt == (CHOOSE s \in sides : s[1] = cur)[2] IN
    IF nxt = start THEN acc
    ELSE TraceOutline(sides, start, nxt, Append(acc, nxt))

\* What this code cannot know of the hull.js build it is linked with: at which
\* point of the outline the result starts (the top-left one, or the next one
\* clockwise) and whether the first point is repeated at the end.
HullConventions == [offset : {0, 1}, closed : BOOLEAN]

\* hulljs(points, 1) of the external library hull.js: "points in clockwise
\* order", maximally concave: the outline of the points walked once, clockwise,
\* ordered as the convention conv says.
hulljs(points, conv) ==
    LET sides == OutlineSides(Range(points))
        pts == {s[1] : s \in sides}
        topLeft == CHOOSE p \in pts :
                      \A q \in pts : p[1] < q[1] \/ (p[1] = q[1] /\ p[2] <= q[2])
        walk == TraceOutline(sides, topLeft, topLeft, <<topLeft>>)
        n == Len(walk)
        turned == [i \in 1 .. n |-> walk[((i - 1 + conv.offset) % n) + 1]]
    IN  IF conv.closed THEN Append(turned, turned[1]) ELSE turned

\* One iteration of the loop over clusters (lines 107-123).
CalculateHull ==
    /\ pc = "hullPoints"
    /\ Len(pointHulls) < Len(clusters)
    /\ \E conv \in (IF hullConv = Null THEN HullConventions ELSE {hullConv[1]}) :
          /\ hullConv' = Some(conv)
          /\ pointHulls' = Append(pointHulls,
                hulljs(cornerPoints(clusters[Len(pointHulls) + 1]), conv))
    /\ UNCHANGED << grid, opts, pc, x, y, scanned, cluster, stack, clusters,
                    passEdges, polyHulls, hulls >>

\* return hulls (line 125)
HullPointsReturn ==
    /\ pc = "hullPoints"
    /\ Len(pointHulls) = Len(clusters)
    /\ pc' = "build"
    /\ UNCHANGED << grid, opts, hullConv, x, y, scanned, cluster, stack, clusters,
                    pointHulls, passEdges, polyHulls, hulls >>

\* ---------------------------------------------------------- buildPolygons

\* new Phaser.Line(x1, y1, x2, y2)
Line(x1, y1, x2, y2) ==
    [start |-> [x |-> x1, y |-> y1], end |-> [x |-> x2, y |-> y2]]

checkIfCollinear(line1, line2) ==
    LET dx1 == line1.end.x - line1.start.x
        dy1 == line1.end.y - line1.start.y
        dx2 == line2.end.x - line2.start.x
        dy2 == line2.end.y - line2.start.y
    IN  (dx1 * dy2) - (dy1 * dx2) = 0

RECURSIVE walkSegments(_, _, _, _)
\* The loop of lines 137-152 from (1-based) point index i on: the edges pushed
\* so far and the edge still growing.
walkSegments(hullPoints, i, currentEdge, edges) ==
    IF i > Len(hullPoints) THEN [currentEdge |-> currentEdge, edges |-> edges]
    ELSE LET segment == Line(hullPoints[i - 1][1], hullPoints[i - 1][2],
                             hullPoints[i][1], hullPoints[i][2])
         IN  IF checkIfCollinear(currentEdge, segment)
             THEN walkSegments(hullPoints, i + 1,
                      Line(currentEdge.start.x, currentEdge.start.y,
                           segment.end.x, segment.end.y),
                      edges)
             ELSE walkSegments(hullPoints, i + 1, segment,
                               Append(edges, currentEdge))

\* faulty variant of closeHull: at a corner the closing segment is not pushed
closeHullDroppingSegment(hullPoints, currentEdge, edges) ==
    LET segment == Line(hullPoints[Len(hullPoints)][1], hullPoints[Len(hullPoints)][2],
                        hullPoints[1][1], hullPoints[1][2])
    IN  IF checkIfCollinear(currentEdge, segment)
        THEN Append(edges, Line(currentEdge.start.x, currentEdge.start.y,
                                segment.end.x, segment.end.y))
        ELSE Append(edges, currentEdge)

\* The last line segment, from the last point back to the first (lines 154-166).
closeHull(hullPoints, currentEdge, edges) ==
    LET segment == Line(hullPoints[Len(hullPoints)][1], hullPoints[Len(hullPoints)][2],
                        hullPoints[1][1], hullPoints[1][2])
    IN  IF checkIfCollinear(currentEdge, segment)
        THEN Append(edges, Line(currentEdge.start.x, currentEdge.start.y,
                                segment.end.x, segment.end.y))
        ELSE Append(Append(edges, currentEdge), segment)

\* `edges` of one hull when line 166 is passed (lines 132-166).
walkHull(hullPoints) ==
    LET first == Line(hullPoints[1][1], hullPoints[1][2],
                      hullPoints[2][1], hullPoints[2][2])
        w == walkSegments(hullPoints, 2, first, <<>>)
    IN  closeHull(hullPoints, w.currentEdge, w.edges)

\* The merge of the first and the last edge (lines 168-177): shift, pop, push.
mergeFirstLast(edges) ==
    IF checkIfCollinear(edges[1], edges[Len(edges)])
    THEN LET firstLine == edges[1]
             lastLine == edges[Len(edges)]
             rest == SubSeq(edges, 2, Len(edges) - 1)
         IN  Append(rest, Line(firstLine.start.x, firstLine.start.y,
                               lastLine.end.x, lastLine.end.y))
    ELSE edges

\* The body of the loop over hulls up to line 166.
BuildPass ==
    /\ pc = "build"
    /\ Len(polyHulls) < Len(pointHulls)
    /\ passEdges' = walkHull(pointHulls[Len(polyHulls) + 1])
    /\ pc' = "merge"
    /\ UNCHANGED << grid, opts, hullConv, x, y, scanned, cluster, stack, clusters,
                    pointHulls, polyHulls, hulls >>

\* Lines 168-180: the first/last merge, then polygons.push(edges).
BuildMerge ==
    /\ pc = "merge"
    /\ polyHulls' = Append(polyHulls, mergeFirstLast(passEdges))
    /\ pc' = "build"
    /\ UNCHANGED << grid, opts, hullConv, x, y, scanned, cluster, stack, clusters,
                    pointHulls, passEdges, hulls >>

\* return polygons (line 183)
BuildReturn ==
    /\ pc = "build"
    /\ Len(polyHulls) = Len(pointHulls)
    /\ pc' = "wrap"
    /\ UNCHANGED << grid, opts, hullConv, x, y, scanned, cluster, stack, clusters,
                    pointHulls, passEdges, polyHulls, hulls >>

\* -------------------------------------------------------- phaserTiledHull

\* new PolygonEdge(edge, i) of ./polygon-edge: the edge with the id of the
\* polygon that owns it (the cached normal is read by nothing checked here).
PolygonEdge(edge, i) == [line |-> edge, polygonId |-> i]

\* faulty variant of wrapEdges: every edge gets polygon id 0
wrapEdgesFirstId(polyHull, i) ==
    [j \in 1 .. Len(polyHull) |-> PolygonEdge(polyHull[j], 0)]

\* the inner loop of lines 37-40 for the polygon with (0-based) index i
wrapEdges(polyHull, i) ==
    [j \in 1 .. Len(polyHull) |-> PolygonEdge(polyHull[j], i)]

\* One iteration of the loop of lines 36-42.
WrapHull ==
    /\ pc = "wrap"
    /\ Len(hulls) < Len(polyHulls)
    /\ hulls' = Append(hulls, wrapEdges(polyHulls[Len(hulls) + 1], Len(hulls)))
    /\ UNCHANGED << grid, opts, hullConv, pc, x, y, scanned, cluster, stack, clusters,
                    pointHulls, passEdges, polyHulls >>

\* return hulls (line 43)
Return ==
    /\ pc = "wrap"
    /\ Len(hulls) = Len(polyHulls)
    /\ pc' = "done"
    /\ UNCHANGED << grid, opts, hullConv, x, y, scanned, cluster, stack, clusters,
                    pointHulls, passEdges, polyHulls, hulls >>

Next ==
    \/ ScanTile
    \/ SearchNeighbor
    \/ SearchReturn
    \/ ScanEnd
    \/ CalculateHull
    \/ HullPointsReturn
    \/ BuildPass
    \/ BuildMerge
    \/ BuildReturn
    \/ WrapHull
    \/ Return

Spec == Init /\ [][Next]_vars

\* ------------------------------------------- buildPolygons on any boundary

\* largest factor the boundaries below are scaled by
MaxScale == 2

\* Simple polygons as cyclic point sequences (the closing segment from the
\* last point to the first is implicit): squares of both windings, triangles
\* with and without a point inside the slanted side, rectangles and L-shapes
\* with and without points inside their straight runs.
Shapes ==
    { << <<0, 0>>, <<1, 0>>, <<1, 1>>, <<0, 1>> >>,
      << <<0, 0>>, <<0, 1>>, <<1, 1>>, <<1, 0>> >>,
      << <<0, 0>>, <<2, 0>>, <<0, 2>> >>,
      << <<0, 0>>, <<2, 0>>, <<1, 1>>, <<0, 2>> >>,
      << <<0, 0>>, <<1, 0>>, <<2, 0>>, <<2, 1>>, <<1, 1>>, <<0, 1>> >>,
      << <<0, 0>>, <<1, 0>>, <<2, 0>>, <<3, 0>>, <<3, 1>>, <<0, 1>> >>,
      << <<0, 0>>, <<2, 0>>, <<2, 1>>, <<1, 1>>, <<1, 2>>, <<0, 2>> >>,
      << <<0, 0>>, <<1, 0>>, <<2, 0>>, <<2, 1>>, <<1, 1>>, <<1, 2>>,
         <<0, 2>>, <<0, 1>> >> }

Scaled(shape, s) ==
    [i \in 1 .. Len(shape) |-> <<shape[i][1] * s, shape[i][2] * s>>]

\* the same cycle started o points later
Rotated(points, o) ==
    [i \in 1 .. Len(points) |-> points[((i - 1 + o) % Len(points)) + 1]]

\* every shape, at every scale, started at every one of its (at most 8) points
Boundaries ==
    { Rotated(Scaled(sh, s), o) :
        sh \in Shapes, s \in 1 .. MaxScale, o \in 0 .. 7 }

\* buildPolygons([boundary]) called on its own
InitReduce ==
    /\ grid = [c \in Coords |-> Null]
    /\ opts = [tileIndices |-> Null, tileProperty |-> Null, checkCollide |-> FALSE]
    /\ pc = "build"
    /\ x = 0
    /\ y = 0
    /\ scanned = <<>>
    /\ cluster = <<>>
    /\ stack = <<>>
    /\ clusters = <<>>
    /\ hullConv = Null
    /\ \E b \in Boundaries : pointHulls = <<b>>
    /\ passEdges = <<>>
    /\ polyHulls = <<>>
    /\ hulls = <<>>

NextReduce == BuildPass \/ BuildMerge \/ BuildReturn

SpecReduce == InitReduce /\ [][NextReduce]_vars

\* ===================================================== checked properties

\* the tiles of the layer that pass checkTile
MatchingTiles ==
    { getTile(c[1], c[2])[1] : c \in {d \in Coords : checkTile(getTile(d[1], d[2]))} }

\* how often tile t occurs in all clusters together
Occurrences(t) ==
    Cardinality(UNION { { <<i, j>> : j \in {k \in 1 .. Len(clusters[i]) :
                                              clusters[i][k] = t} } :
                        i \in 1 .. Len(clusters) })

ClustersReturned == pc \notin {"scan", "search"}

\* C1: once calculateClusters has returned, the clusters partition the
\* matching cells: every tile in a cluster is a matching tile of the layer,
\* and every matching tile occurs exactly once in all clusters together (so in
\* exactly one cluster, and once inside it).
C1_ClustersPartitionMatching ==
    ClustersReturned =>
        /\ \A i \in 1 .. Len(clusters) : Range(clusters[i]) \subseteq MatchingTiles
        /\ \A t \in MatchingTiles : Occurrences(t) = 1

\* C1 witness: two clusters were returned from a layer that also holds an
\* empty cell and a non-empty cell that does not match.
C1_Witness ==
    /\ pc = "hullPoints"
    /\ Len(clusters) = 2
    /\ \E c \in Coords : grid[c] = Null
    /\ \E c \in Coords : grid[c] # Null /\ ~checkTile(getTile(c[1], c[2]))

Adjacent4(a, b) ==
    \/ a.x = b.x /\ (a.y = b.y + 1 \/ b.y = a.y + 1)
    \/ a.y = b.y /\ (a.x = b.x + 1 \/ b.x = a.x + 1)

RECURSIVE ReachWithin(_, _)
\* the tiles of S joined to a tile of `seen` by a path of 4-adjacent tiles of S
ReachWithin(S, seen) ==
    LET more == {t \in S \ seen : \E u \in seen : Adjacent4(t, u)} IN
    IF more = {} THEN seen ELSE ReachWithin(S, seen \cup more)

\* C2: every returned cluster is a maximal 4-connected component of matching
\* tiles: from its first tile every other tile of it is reached by a path of
\* 4-adjacent tiles of the cluster, every matching 4-neighbour of one of its
\* tiles is in it, and no tiles of two different clusters are 4-adjacent.
C2_ClustersAreComponents ==
    ClustersReturned =>
        /\ \A i \in 1 .. Len(clusters) :
              /\ clusters[i] # <<>>
              /\ ReachWithin(Range(clusters[i]), {clusters[i][1]}) = Range(clusters[i])
              /\ \A t \in Range(clusters[i]) : \A u \in MatchingTiles :
                    Adjacent4(t, u) => u \in Range(clusters[i])
        /\ \A i, j \in 1 .. Len(clusters) :
              i # j => \A t \in Range(clusters[i]) : \A u \in Range(clusters[j]) :
                          ~Adjacent4(t, u)

\* C2 witness: a returned cluster of three tiles (an L in a 2 x 2 layer) next
\* to a cell that is not part of it.
C2_Witness ==
    /\ pc = "hullPoints"
    /\ \E i \in 1 .. Len(clusters) : Len(clusters[i]) >= 3
    /\ \E c \in Coords : ~checkTile(getTile(c[1], c[2]))

\* the coordinates in the order of the loops of lines 52-53
ScanOrder ==
    [i \in 1 .. Width * Height |-> <<(i - 1) \div Height, (i - 1) % Height>>]

\* C10: calculateClusters terminates, every flood fill having finished, and
\* its loops have then examined every coordinate of the layer exactly once,
\* column by column.
C10_ClusteringTerminates ==
    <>(pc = "hullPoints" /\ stack = <<>> /\ scanned = ScanOrder)

\* C10 witness: the scan is over after a flood fill that grew a cluster of
\* more than one tile.
C10_Witness ==
    /\ pc = "hullPoints"
    /\ Len(scanned) = Width * Height
    /\ \E i \in 1 .. Len(clusters) : Len(clusters[i]) >= 2

NoMode ==
    opts.tileIndices = Null /\ opts.tileProperty = Null /\ ~opts.checkCollide

InSomeCluster(c) ==
    \E i \in 1 .. Len(clusters) : \E t \in Range(clusters[i]) : t.x = c[1] /\ t.y = c[2]

\* a non-empty cell that satisfies at least one configured mode
SatisfiesAMode(c) ==
    /\ grid[c] # Null
    /\ \/ opts.tileIndices # Null /\ grid[c][1].index \in opts.tileIndices[1]
       \/ opts.tileProperty # Null /\ grid[c][1].properties[opts.tileProperty[1]]
       \/ opts.checkCollide /\ grid[c][1].collides

C6_DefaultsTakeEveryTile ==
    (pc = "done" /\ NoMode) =>
        \A c \in Coords : grid[c] # Null => InSomeCluster(c)

EndPoints(edges) ==
    UNION { { <<e.start.x, e.start.y>>, <<e.end.x, e.end.y>> } : e \in Range(edges) }

\* position of a tile in the scan of calculateClusters
ScanIndex(t) == t.x * Height + t.y

\* C7: the result keeps order and ownership: clusters are in the order the scan
\* met their first tile, there is one polygon per cluster, polygon i is made
\* of corner points of the tiles of cluster i, its wrapped edges are the
\* reducer's edges for that cluster in the same order and number, and every one
\* of them carries the (0-based) polygon id i.
C7_OrderAndOwnership ==
    pc = "done" =>
        /\ Len(hulls) = Len(clusters)
        /\ Len(polyHulls) = Len(clusters)
        /\ Len(pointHulls) = Len(clusters)
        /\ \A i, j \in 1 .. Len(clusters) :
              i < j => ScanIndex(clusters[i][1]) < ScanIndex(clusters[j][1])
        /\ \A i \in 1 .. Len(hulls) :
              /\ Range(pointHulls[i]) \subseteq Range(cornerPoints(clusters[i]))
              /\ EndPoints(polyHulls[i]) \subseteq Range(pointHulls[i])
              /\ Len(hulls[i]) = Len(polyHulls[i])
              /\ \A j \in 1 .. Len(hulls[i]) :
                    /\ hulls[i][j].line = polyHulls[i][j]
                    /\ hulls[i][j].polygonId = i - 1

\* C7 witness: a result of two polygons.
C7_Witness ==
    /\ pc = "done"
    /\ Len(hulls) = 2
    /\ Len(hulls[2]) >= 3

\* ---- buildPolygons (SpecReduce)

Reduced == pc = "wrap" /\ Len(polyHulls) = 1

\* C3: no two cyclically consecutive edges of a produced polygon (the last and
\* the first included) are collinear under checkIfCollinear.
C3_NoCollinearNeighbours ==
    Reduced =>
        LET e == polyHulls[1] IN
        \A i \in 1 .. Len(e) : ~checkIfCollinear(e[i], e[(i % Len(e)) + 1])

RECURSIVE SumDirections(_)
SumDirections(edges) ==
    IF edges = <<>> THEN <<0, 0>>
    ELSE LET r == SumDirections(Tail(edges)) IN
         << edges[1].end.x - edges[1].start.x + r[1],
            edges[1].end.y - edges[1].start.y + r[2] >>

\* C4: the direction vectors of a produced polygon's edges sum to zero.
C4_DirectionsSumToZero ==
    Reduced => SumDirections(polyHulls[1]) = <<0, 0>>

\* the four corner sequences of axis-aligned squares among the shapes
Squares ==
    { Scaled(sh, s) : sh \in { << <<0, 0>>, <<1, 0>>, <<1, 1>>, <<0, 1>> >>,
                               << <<0, 0>>, <<0, 1>>, <<1, 1>>, <<1, 0>> >> },
                      s \in 1 .. MaxScale }

\* the sides of a cyclic point sequence
CyclicSegments(points) ==
    { Line(points[i][1], points[i][2],
           points[(i % Len(points)) + 1][1], points[(i % Len(points)) + 1][2]) :
        i \in 1 .. Len(points) }

\* C8: the 4 corners of an axis-aligned square, started at any corner, give
\* exactly 4 edges, the 4 sides of the square: the same for all 4 starts.
C8_SquareFromAnyCorner ==
    \A sq \in Squares : \A o \in 0 .. 3 :
        (Reduced /\ pointHulls = <<Rotated(sq, o)>>) =>
            /\ Len(polyHulls[1]) = 4
            /\ Range(polyHulls[1]) = CyclicSegments(sq)

\* C8 witness: a square started at another corner than its listed first one
\* was reduced.
C8_Witness ==
    /\ Reduced
    /\ \E sq \in Squares : \E o \in 1 .. 3 : pointHulls = <<Rotated(sq, o)>>
    /\ Len(polyHulls[1]) = 4

\* C9: when the first and the last edge of the single pass are collinear, the
\* result is the pass's edges without those two plus exactly one merged edge
\* of non-zero length from the last edge's start to the first edge's end;
\* otherwise the result is the pass's edges unchanged.
C9_WrapAroundMerge ==
    Reduced =>
        LET e == passEdges
            r == polyHulls[1]
            merged == Line(e[Len(e)].start.x, e[Len(e)].start.y,
                           e[1].end.x, e[1].end.y)
        IN  IF checkIfCollinear(e[1], e[Len(e)])
            THEN /\ Len(r) = Len(e) - 1
                 /\ merged.start # merged.end
                 /\ \E k \in 1 .. Len(r) : r[k] = merged
                 /\ \A k \in 2 .. Len(e) - 1 : \E m \in 1 .. Len(r) : r[m] = e[k]
            ELSE r = e
====
